---------------------------- MODULE Spec2Model ----------------------------
(*************************************************************************)
(* A model of localpaste.py: the multipart body scan (read_data), the    *)
(* short-name generator (generate_name), the one-file-per-paste store    *)
(* (save_file, read_file) and the two request handlers (do_POST, do_GET) *)
(* run by a threading HTTP server.                                       *)
(*                                                                       *)
(* Bytes are tokens: "CR" and "LF" are the bytes 0x0D and 0x0A, "x" is   *)
(* an ordinary ASCII byte, "HI" is a byte that is not valid UTF-8 (such  *)
(* as 0xFF), "CD" stands for the ASCII text Content-Disposition: and "B" *)
(* for the ASCII text of the multipart delimiter (--boundary).  Text is  *)
(* a sequence of characters written with the same tokens; latin1 maps    *)
(* the byte "HI" to the character "U+00FF".                              *)
(*************************************************************************)
EXTENDS Naturals, Sequences, FiniteSets

\* ------------------------------------------------------------ bounds
MaxRequests == 2
MaxPayloadLen == 2
MaxPathLen == 2
DigestLen == 2
MaxNameMinSize == 2

\* handler threads that can be in flight at once (ThreadingMixIn starts one
\* thread per request)
Threads == {1, 2}

\* ------------------------------------------------------------ values
\* Python's None, for a text or a name that is not set
None == <<"None">>

CRLF == <<"CR", "LF">>

SeqsUpTo(S, n) == UNION {[1..k -> S] : k \in 0..n}

Last(s) == s[Len(s)]

\* Python's  sub in s  for str
Contains(s, sub) ==
    \E i \in 0..(Len(s) - Len(sub)) : SubSeq(s, i + 1, i + Len(sub)) = sub

\* ------------------------------------------------------------ read_data
\* for line in file: a binary stream is cut after every LF
FirstLF(b) ==
    IF \E i \in 1..Len(b) : b[i] = "LF"
    THEN CHOOSE i \in 1..Len(b) : b[i] = "LF" /\ \A j \in 1..(i - 1) : b[j] # "LF"
    ELSE Len(b)

RECURSIVE FileLines(_)
FileLines(b) ==
    IF b = <<>> THEN <<>>
    ELSE <<SubSeq(b, 1, FirstLF(b))>> \o FileLines(SubSeq(b, FirstLF(b) + 1, Len(b)))

\* line.decode("utf-8") raises on a byte that is not valid UTF-8
Utf8Valid(line) == \A i \in 1..Len(line) : line[i] # "HI"

DecodeUtf8(line) == line

DecodeLatin1(line) == [i \in 1..Len(line) |-> IF line[i] = "HI" THEN "U+00FF" ELSE line[i]]

\* str.splitlines()[0]: the text before the first line break
FirstBreak(text) ==
    IF \E i \in 1..Len(text) : text[i] \in {"CR", "LF"}
    THEN CHOOSE i \in 1..Len(text) :
            text[i] \in {"CR", "LF"} /\ \A j \in 1..(i - 1) : text[j] \notin {"CR", "LF"}
    ELSE Len(text) + 1

SplitLinesFirst(text) == SubSeq(text, 1, FirstBreak(text) - 1)

LineStr(line) ==
    IF Utf8Valid(line) THEN SplitLinesFirst(DecodeUtf8(line))
    ELSE SplitLinesFirst(DecodeLatin1(line))

ReadInit ==
    [data |-> <<>>, ending |-> None, oldline |-> None,
     found_data |-> FALSE, ignore_next |-> FALSE, brk |-> FALSE]

\* variant: the line after the Content-Disposition line is not skipped
ReadStep_NoSkip(st, line) ==
    LET line_str == LineStr(line) IN
    IF Contains(line_str, <<"CD">>)
    THEN [st EXCEPT !.found_data = TRUE, !.ending = st.oldline]
    ELSE IF st.ending # None /\ st.ending # <<>> /\ Contains(line_str, st.ending)
         THEN [st EXCEPT !.brk = TRUE]
    ELSE IF st.found_data THEN [st EXCEPT !.data = st.data \o line]
    ELSE [st EXCEPT !.oldline = line_str]

\* variant: the decoded text of the line is appended, not its bytes
ReadStep_Decoded(st, line) ==
    LET line_str == LineStr(line) IN
    IF st.ignore_next THEN [st EXCEPT !.ignore_next = FALSE]
    ELSE IF Contains(line_str, <<"CD">>)
         THEN [st EXCEPT !.found_data = TRUE, !.ending = st.oldline, !.ignore_next = TRUE]
    ELSE IF st.ending # None /\ st.ending # <<>> /\ Contains(line_str, st.ending)
         THEN [st EXCEPT !.brk = TRUE]
    ELSE IF st.found_data THEN [st EXCEPT !.data = st.data \o line_str]
    ELSE [st EXCEPT !.oldline = line_str]

\* one pass of the loop body, in the order of the if / elif chain
ReadStep(st, line) ==
    LET line_str == LineStr(line) IN
    IF st.ignore_next THEN [st EXCEPT !.ignore_next = FALSE]
    ELSE IF Contains(line_str, <<"CD">>)
         THEN [st EXCEPT !.found_data = TRUE, !.ending = st.oldline, !.ignore_next = TRUE]
    ELSE IF st.ending # None /\ st.ending # <<>> /\ Contains(line_str, st.ending)
         THEN [st EXCEPT !.brk = TRUE]
    ELSE IF st.found_data THEN [st EXCEPT !.data = st.data \o line]
    ELSE [st EXCEPT !.oldline = line_str]

RECURSIVE ReadLoop(_, _, _)
ReadLoop(lines, i, st) ==
    IF i > Len(lines) \/ st.brk THEN st
    ELSE ReadLoop(lines, i + 1, ReadStep(st, lines[i]))

\* variant: the last two bytes go whenever the data ends with LF
StripCRLF_AnyTwo(d) ==
    IF Len(d) >= 2 /\ d[Len(d)] = "LF"
    THEN SubSeq(d, 1, Len(d) - 2)
    ELSE d

StripCRLF(d) ==
    IF Len(d) >= 2 /\ SubSeq(d, Len(d) - 1, Len(d)) = CRLF
    THEN SubSeq(d, 1, Len(d) - 2)
    ELSE d

read_data(body) == StripCRLF(ReadLoop(FileLines(body), 1, ReadInit).data)


\* ------------------------------------------------------------ inputs
\* the bytes an upload can carry (the delimiter text is left out: a payload
\* holding it ends the upload)
PayloadBytes == {"x", "CR", "LF", "CD", "HI"}

Payloads == SeqsUpTo(PayloadBytes, MaxPayloadLen)

\* the body curl -F sends for one field: delimiter line, Content-Disposition
\* line, blank line, the payload, CR LF, closing delimiter line
Upload(P) ==
    <<"B", "CR", "LF">> \o <<"CD", "x", "CR", "LF">> \o CRLF
        \o P \o CRLF \o <<"B", "x", "x", "CR", "LF">>

\* a body with no Content-Disposition line
NoFieldBody == <<"B", "CR", "LF", "x", "CR", "LF">>

\* what b64encode yields for a 20 byte digest, shortened: DigestLen characters
\* of the alphabet and one "=" of padding
Base64Chars == {"a", "+", "/"}

Base64Strs == {s \o <<"=">> : s \in [1..DigestLen -> Base64Chars]}

\* the characters a request path can hold (BaseHTTPRequestHandler cuts the
\* request line at white space, so a path holds none)
PathChars == {"a", "+", "/", "."}

\* ------------------------------------------------------------ state
VARIABLES
    conf,       \* args: name_min_size, scheme, port, whether datadir is the
                \* working directory, whether datadir is writable; and how the
                \* clients behave
    serving,    \* the server is inside serve_forever
    files,      \* the store directory: name -> content, and who wrote it
    th,         \* the handler threads: position and locals
    nreq,       \* requests accepted so far
    answered,   \* the POSTs answered 200
    failed,     \* the latest request whose handler raised (0: none yet)
    ex          \* one run of read_data followed line by line: its input, its
                \* position in the for loop, its locals, what it returned

vars == <<conf, serving, files, th, nreq, answered, failed, ex>>

NoReq == [method |-> "none", path |-> <<>>, body |-> <<>>, sent |-> None]

NoResp == [status |-> 0, body |-> <<>>]

IdleTh ==
    [pc |-> "idle", req |-> NoReq, rid |-> 0, data |-> <<>>, name |-> None,
     ts |-> None, fs |-> FALSE, resp |-> NoResp]

Free(t) == th[t].pc \in {"idle", "done", "failed"}

\* ------------------------------------------------------------ generate_name
Remove(s, ch) == SelectSeq(s, LAMBDA c : c # ch)

\* os.path.isfile(check): check is resolved against the working directory
isfile(check) == conf.datadirIsCwd /\ check \in DOMAIN files

RECURSIVE ShortestFree(_, _)
ShortestFree(base64str, l) ==
    IF l >= Len(base64str) THEN None
    ELSE IF ~isfile(SubSeq(base64str, 1, l)) THEN SubSeq(base64str, 1, l)
    ELSE ShortestFree(base64str, l + 1)

\* a generator that forgets to remove the slashes
Stripped_KeepSlash(base64bytes) == Remove(base64bytes, ".")

\* base64str with "/" and "." removed
Stripped(base64bytes) == Remove(Remove(base64bytes, "/"), ".")

generate_name(base64bytes) == ShortestFree(Stripped(base64bytes), conf.name_min_size)

\* whether generate_name probes the file system at all: range() may be empty
Probes(base64bytes) == conf.name_min_size < Len(Stripped(base64bytes))

\* ------------------------------------------------------------ store
\* a save that cuts the name to its first name_min_size characters
OpenWB_CutName(name, rid) ==
    LET cut == SubSeq(name, 1, conf.name_min_size) IN
    [n \in DOMAIN files \cup {name, cut} |->
        IF n = cut
        THEN [data |-> <<>>,
              events |-> (IF n \in DOMAIN files THEN files[n].events ELSE <<>>)
                            \o <<<<rid, "open">>>>]
        ELSE IF n \in DOMAIN files THEN files[n]
        ELSE [data |-> <<>>, events |-> <<>>]]

\* open(os.path.join(args.datadir, name), 'wb'): creates or truncates
OpenWB(name, rid) ==
    [n \in DOMAIN files \cup {name} |->
        IF n = name
        THEN [data |-> <<>>,
              events |-> (IF n \in DOMAIN files THEN files[n].events ELSE <<>>)
                            \o <<<<rid, "open">>>>]
        ELSE files[n]]

\* f.write(bytes(data)) and the close: the bytes land at offset 0
WriteAt0(old, d) == d \o SubSeq(old, Len(d) + 1, Len(old))

WriteClose(name, rid, d) ==
    [files EXCEPT ![name] = [data |-> WriteAt0(files[name].data, d),
                              events |-> files[name].events \o <<<<rid, "write">>>>]]

\* a read in text mode: every CR LF and every CR comes back as LF
RECURSIVE UniversalNewlines(_)
UniversalNewlines(d) ==
    IF d = <<>> THEN <<>>
    ELSE IF Len(d) >= 2 /\ d[1] = "CR" /\ d[2] = "LF"
         THEN <<"LF">> \o UniversalNewlines(SubSeq(d, 3, Len(d)))
    ELSE IF d[1] = "CR" THEN <<"LF">> \o UniversalNewlines(Tail(d))
    ELSE <<d[1]>> \o UniversalNewlines(Tail(d))

read_file_text(filename) == UniversalNewlines(files[filename].data)

\* read_file: open(..., 'rb') and f.read()
read_file(filename) == files[filename].data

\* ------------------------------------------------------------ server
\* a server whose serving loop is left by the handler's exception
Raise_StopsServer(t, fs) ==
    /\ th' = [th EXCEPT ![t].pc = "failed", ![t].fs = fs]
    /\ failed' = th[t].rid
    /\ serving' = FALSE

\* An exception leaves the handler: the thread ThreadingMixIn started for the
\* request reports it and closes the connection; no response is sent, and
\* serve_forever goes on.  fs: whether the handler has got as far as the file
\* system.
Raise(t, fs) ==
    /\ th' = [th EXCEPT ![t].pc = "failed", ![t].fs = fs]
    /\ failed' = th[t].rid
    /\ serving' = serving

\* What the clients send.  "many": clients that do not wait for each other,
\* sending a few fixed requests.  The others are one client that waits for each
\* answer.  "uploader": uploads any payload once, then asks for pastes.
\* "reader": uploads a fixed payload once and asks for any path.  "poster":
\* uploads one fixed payload again and again.
FewBodies ==
    {[body |-> Upload(<<"x">>), sent |-> <<"x">>],
     [body |-> Upload(<<"HI", "x">>), sent |-> <<"HI", "x">>],
     [body |-> Upload(<<>>), sent |-> <<>>]}

FewPaths == {<<"a">>, <<".", ".">>} \cup DOMAIN files

PostBodies ==
    IF conf.client = "uploader"
    THEN {[body |-> Upload(P), sent |-> P] : P \in Payloads}
            \cup {[body |-> NoFieldBody, sent |-> None]}
    ELSE IF conf.client = "poster"
    THEN {[body |-> Upload(<<"x">>), sent |-> <<"x">>]}
    ELSE FewBodies

GetPaths ==
    IF conf.client = "reader"
    THEN SeqsUpTo(PathChars, MaxPathLen) \cup DOMAIN files
    ELSE FewPaths

Single == conf.client # "many"

\* The request goes to a new thread: the lowest slot that is free.  A slot
\* keeps what its last request did until the next request is accepted.
CanAccept(t) ==
    /\ serving
    /\ nreq < MaxRequests
    /\ Free(t)
    /\ \A u \in Threads : u < t => ~Free(u)
    /\ Single => \A u \in Threads : Free(u)

Start(t, pc, req) ==
    th' = [u \in Threads |->
             IF u = t THEN [IdleTh EXCEPT !.pc = pc, !.rid = nreq + 1, !.req = req]
             ELSE IF Free(u) THEN IdleTh ELSE th[u]]

AcceptPOST(t) ==
    /\ CanAccept(t)
    /\ conf.client \in {"uploader", "reader"} => nreq = 0
    /\ \E b \in PostBodies :
          Start(t, "do_POST", [method |-> "POST", path |-> <<"/">>,
                               body |-> b.body, sent |-> b.sent])
    /\ nreq' = nreq + 1
    /\ UNCHANGED <<conf, ex, serving, files, answered, failed>>

AcceptGET(t) ==
    /\ CanAccept(t)
    /\ conf.client # "poster"
    /\ \E p \in GetPaths :
          Start(t, "do_GET", [method |-> "GET", path |-> <<"/">> \o p,
                              body |-> <<>>, sent |-> None])
    /\ nreq' = nreq + 1
    /\ UNCHANGED <<conf, ex, serving, files, answered, failed>>

\* ------------------------------------------------------------ do_POST
Respond(t, status, body) ==
    th' = [th EXCEPT ![t].pc = "done", ![t].resp = [status |-> status, body |-> body]]

\* a handler that goes on with an empty payload
PostRead_NoLengthCheck(t) ==
    /\ th[t].pc = "do_POST"
    /\ th' = [th EXCEPT ![t].pc = "generate_name", ![t].data = read_data(th[t].req.body)]
    /\ UNCHANGED <<conf, ex, serving, files, nreq, answered, failed>>

\* data = read_data(self.rfile); an empty payload is answered 400
PostRead(t) ==
    /\ th[t].pc = "do_POST"
    /\ LET data == read_data(th[t].req.body) IN
       IF Len(data) = 0
       THEN Respond(t, 400, <<>>)
       ELSE th' = [th EXCEPT ![t].pc = "generate_name", ![t].data = data]
    /\ UNCHANGED <<conf, ex, serving, files, nreq, answered, failed>>

\* name = generate_name(): the digest of the clock's reading is any string
\* b64encode can yield (kept in ts for the single clients, whose uploads are
\* compared by it).  The isfile probes are taken in one step: files are
\* only ever added, so a probe that found a name taken would find it taken at
\* the last probe too.
PostGenerate(t) ==
    /\ th[t].pc = "generate_name"
    /\ \E b \in Base64Strs :
          th' = [th EXCEPT ![t].pc = "save_file", ![t].name = generate_name(b),
                           ![t].ts = IF Single THEN b ELSE None, ![t].fs = Probes(b)]
    /\ UNCHANGED <<conf, ex, serving, files, nreq, answered, failed>>

\* a save that takes None for a name like any other
PostSaveOpen_NoneAsName(t) ==
    /\ th[t].pc = "save_file"
    /\ IF ~conf.writable
       THEN Raise(t, TRUE) /\ files' = files
       ELSE /\ files' = OpenWB(th[t].name, th[t].rid)
            /\ th' = [th EXCEPT ![t].pc = "save_write"]
            /\ UNCHANGED <<serving, failed>>
    /\ UNCHANGED <<conf, ex, nreq, answered>>

\* save_file, the open: os.path.join raises on None, open raises when the
\* directory cannot be written
PostSaveOpen(t) ==
    /\ th[t].pc = "save_file"
    /\ IF th[t].name = None \/ ~conf.writable
       THEN Raise(t, th[t].fs \/ th[t].name # None) /\ files' = files
       ELSE /\ files' = OpenWB(th[t].name, th[t].rid)
            /\ th' = [th EXCEPT ![t].pc = "save_write"]
            /\ UNCHANGED <<serving, failed>>
    /\ UNCHANGED <<conf, ex, nreq, answered>>

\* a handler that answers without having written the file
PostSaveWrite_Skipped(t) ==
    /\ th[t].pc = "save_write"
    /\ th' = [th EXCEPT ![t].pc = "send_200"]
    /\ UNCHANGED <<conf, ex, serving, files, nreq, answered, failed>>

\* save_file, the write and the close
PostSaveWrite(t) ==
    /\ th[t].pc = "save_write"
    /\ files' = WriteClose(th[t].name, th[t].rid, th[t].data)
    /\ th' = [th EXCEPT ![t].pc = "send_200"]
    /\ UNCHANGED <<conf, ex, serving, nreq, answered, failed>>

\* if not (scheme == "http" and port == 80) or not (scheme == "https" and
\* port == 443): "%s:%s" % (hostname, port), else "%s" % hostname
hostname_and_port ==
    IF ~(conf.scheme = "http" /\ conf.port = "80")
          \/ ~(conf.scheme = "https" /\ conf.port = "443")
    THEN <<"hostname", ":", conf.port>>
    ELSE <<"hostname">>

\* "%s://%s/%s\r\n" % (args.scheme, hostname_and_port, name)
Url(name) == <<conf.scheme, "://">> \o hostname_and_port \o <<"/">> \o name \o CRLF

PostSend(t) ==
    /\ th[t].pc = "send_200"
    /\ Respond(t, 200, Url(th[t].name))
    /\ answered' = answered \cup
          {[rid |-> th[t].rid, name |-> th[t].name, payload |-> th[t].data,
            sent |-> th[t].req.sent, ts |-> th[t].ts]}
    /\ UNCHANGED <<conf, ex, serving, files, nreq, failed>>

\* ------------------------------------------------------------ do_GET
\* the character class [a-zA-Z0-9+=]
NameChars == {"a", "+", "="}

\* the pattern without its anchors: one character of the class is enough
PathRegexSearch(path) == \E i \in 1..Len(path) : path[i] \in NameChars

\* re.compile("^[a-zA-Z0-9+=]+$").match(path): $ also matches before a final
\* line feed
PathRegexMatch(path) ==
    LET core == IF path # <<>> /\ Last(path) = "LF"
                THEN SubSeq(path, 1, Len(path) - 1) ELSE path
    IN  core # <<>> /\ \A i \in 1..Len(core) : core[i] \in NameChars

\* path = self.path[1:]
GetPath(t) == Tail(th[t].req.path)

GetValidate(t) ==
    /\ th[t].pc = "do_GET"
    /\ IF ~PathRegexMatch(GetPath(t))
       THEN Respond(t, 400, <<>>)
       ELSE th' = [th EXCEPT ![t].pc = "read_file"]
    /\ UNCHANGED <<conf, ex, serving, files, nreq, answered, failed>>

\* data = read_file(path): open raises when there is no such file
GetRead(t) ==
    /\ th[t].pc = "read_file"
    /\ IF GetPath(t) \notin DOMAIN files
       THEN Raise(t, TRUE)
       ELSE /\ LET data == read_file(GetPath(t)) IN
               IF Len(data) = 0
               THEN th' = [th EXCEPT ![t].pc = "done", ![t].fs = TRUE,
                                     ![t].resp = [status |-> 400, body |-> <<>>]]
               ELSE th' = [th EXCEPT ![t].pc = "done", ![t].fs = TRUE,
                                     ![t].resp = [status |-> 200, body |-> data]]
            /\ UNCHANGED <<serving, failed>>
    /\ UNCHANGED <<conf, ex, files, nreq, answered>>

\* ------------------------------------------------------------ specifications
\* with --scheme https the module stops at httpd.socket = ... (httpd is not
\* defined) before run_server is reached: that server never serves
InitState ==
    /\ serving = (conf.scheme # "https")
    /\ files = <<>>
    /\ th = [t \in Threads |-> IdleTh]
    /\ nreq = 0
    /\ answered = {}
    /\ failed = 0

\* no run of read_data is being followed
ExIdle == [pc |-> "idle", lines |-> <<>>, i |-> 1, st |-> ReadInit, out |-> None]

Init ==
    /\ conf \in [name_min_size : 1..MaxNameMinSize, datadirIsCwd : BOOLEAN,
                 writable : BOOLEAN, client : {"many"},
                 scheme : {"http"}, port : {"6542"}]
    /\ InitState
    /\ ex = ExIdle

InitSingle ==
    /\ conf \in [name_min_size : 1..MaxNameMinSize, datadirIsCwd : BOOLEAN,
                 writable : {TRUE}, client : {"uploader", "poster"},
                 scheme : {"http"}, port : {"6542"}]
          \cup [name_min_size : 1..MaxNameMinSize, datadirIsCwd : BOOLEAN,
                 writable : {TRUE}, client : {"reader"},
                 scheme : {"http", "https"}, port : {"80", "443", "6542"}]
    /\ InitState
    /\ ex = ExIdle

Next ==
    \E t \in Threads :
       \/ AcceptPOST(t)
       \/ AcceptGET(t)
       \/ PostRead(t)
       \/ PostGenerate(t)
       \/ PostSaveOpen(t)
       \/ PostSaveWrite(t)
       \/ PostSend(t)
       \/ GetValidate(t)
       \/ GetRead(t)

Spec == Init /\ [][Next]_vars

SpecSingle == InitSingle /\ [][Next]_vars

\* ------------------------------------------------------------ read_data, line by line
\* the most lines a stream given to read_data has (an unterminated tail not
\* counted)
MaxLines == 5

\* the lines the scan tells apart: a delimiter, a line holding the delimiter,
\* a Content-Disposition line, an empty line, a line ended by LF alone, a
\* line that is not UTF-8
ExtractLines ==
    {<<"B", "CR", "LF">>, <<"x", "B", "CR", "LF">>, <<"CD", "CR", "LF">>, CRLF,
     <<"x", "LF">>, <<"HI", "CR", "LF">>}

\* what follows the last LF of the stream: nothing, or bytes without LF
ExtractTails == {<<>>, <<"x", "CR">>}

RECURSIVE Flatten(_)
Flatten(ls) == IF ls = <<>> THEN <<>> ELSE ls[1] \o Flatten(Tail(ls))

ExtractBodies ==
    {Flatten(ls) \o tl : ls \in SeqsUpTo(ExtractLines, MaxLines), tl \in ExtractTails}

\* read_data(file) is entered: the locals are set, the for loop is at the
\* first line
InitExtract ==
    /\ conf = [name_min_size |-> 1, datadirIsCwd |-> FALSE, writable |-> TRUE,
               client |-> "many", scheme |-> "http", port |-> "6542"]
    /\ InitState
    /\ \E body \in ExtractBodies :
          ex = [pc |-> "loop", lines |-> FileLines(body), i |-> 1, st |-> ReadInit,
                out |-> None]

\* one pass of the for loop
ExStep ==
    /\ ex.pc = "loop"
    /\ ex.i <= Len(ex.lines)
    /\ ~ex.st.brk
    /\ ex' = [ex EXCEPT !.st = ReadStep(ex.st, ex.lines[ex.i]), !.i = ex.i + 1]
    /\ UNCHANGED <<conf, serving, files, th, nreq, answered, failed>>

\* the loop is left, by break or at the end of the stream: the trailing CR LF
\* is removed and data is returned
ExReturn ==
    /\ ex.pc = "loop"
    /\ ex.i > Len(ex.lines) \/ ex.st.brk
    /\ ex' = [ex EXCEPT !.pc = "returned", !.out = StripCRLF(ex.st.data)]
    /\ UNCHANGED <<conf, serving, files, th, nreq, answered, failed>>

NextExtract == ExStep \/ ExReturn

SpecExtract == InitExtract /\ [][NextExtract]_vars

\* the loop runs in a thread that is scheduled: it is not left half way
SpecExtractLive == SpecExtract /\ WF_vars(NextExtract)

\* ------------------------------------------------------------ claims
Over(t) == th[t].pc \in {"done", "failed"}

IsPost(t) == th[t].req.method = "POST"

IsGet(t) == th[t].req.method = "GET"

Answer400 == [status |-> 400, body |-> <<>>]

\* C1: a POST uploading a non-empty payload P (without the delimiter) is
\* answered 200 with the URL of a name, and the GET of that name that follows
\* is answered 200 with exactly P.
C1_RoundTrip ==
    conf.client = "uploader" =>
       \A t \in Threads :
          /\ (IsPost(t) /\ Over(t) /\ th[t].req.sent \notin {None, <<>>}) =>
                /\ th[t].pc = "done"
                /\ th[t].name # None
                /\ th[t].resp = [status |-> 200, body |-> Url(th[t].name)]
          /\ \A r \in answered :
                (IsGet(t) /\ Over(t) /\ GetPath(t) = r.name) =>
                   th[t].resp = [status |-> 200, body |-> r.sent]

\* C2: no two POSTs answered 200 were given the same name, and the file of
\* every POST answered 200 holds that POST's payload ever after.
C2_UniqueImmutable ==
    /\ \A r1, r2 \in answered : r1.rid # r2.rid => r1.name # r2.name
    /\ \A r \in answered :
          r.name \in DOMAIN files /\ files[r.name].data = r.payload

\* C3: uploads made one after the other, whose clock readings (and so whose
\* digests) differ, are given different names.
C3_SequentialDistinct ==
    \A r1, r2 \in answered : r1.ts # r2.ts => r1.name # r2.name

\* a path the pattern is meant to refuse
BadPath(path) == path = <<>> \/ \E i \in 1..Len(path) : path[i] \notin NameChars

\* C4: a GET whose path is empty or holds a character outside
\* [A-Za-z0-9+=] is answered 400 with an empty body, and its handler never
\* gets to the file system.
C4_GetPathValidation ==
    \A t \in Threads :
       (IsGet(t) /\ th[t].pc # "do_GET" /\ BadPath(GetPath(t))) =>
          th[t].pc = "done" /\ th[t].resp = Answer400 /\ ~th[t].fs

C4_Witness ==
    \E t \in Threads :
       /\ IsGet(t) /\ th[t].pc = "done" /\ th[t].resp = Answer400
       /\ GetPath(t) = <<".", ".">>
       /\ files # <<>>

\* C5: a GET of a well-formed name that is no file of the store is answered
\* 400 with an empty body.
C5_UnknownPaste400 ==
    Single =>
       \A t \in Threads :
          (IsGet(t) /\ Over(t) /\ PathRegexMatch(GetPath(t))
             /\ GetPath(t) \notin DOMAIN files) =>
                th[t].pc = "done" /\ th[t].resp = Answer400

\* C6: the step of a POST that extracts an empty payload answers 400 with an
\* empty body, ends the handler, generates no name and leaves the store as it
\* is.
C6_EmptyUploadRejected ==
    [][\A t \in Threads :
          (th[t].pc = "do_POST" /\ th'[t].pc # "do_POST"
             /\ Len(read_data(th[t].req.body)) = 0) =>
                /\ th'[t].pc = "done"
                /\ th'[t].resp = Answer400
                /\ th'[t].name = None
                /\ ~th'[t].fs
                /\ files' = files]_vars

C6_Witness ==
    \E t \in Threads :
       /\ IsPost(t) /\ th[t].pc = "done" /\ th[t].resp = Answer400
       /\ th[t].req.body = NoFieldBody

\* C7: every name generate_name returns has at least name_min_size
\* characters, all of [A-Za-z0-9+=], so the GET pattern accepts it.
C7_WellFormedNames ==
    \A t \in Threads :
       th[t].name # None =>
          /\ Len(th[t].name) >= conf.name_min_size
          /\ ~BadPath(th[t].name)
          /\ PathRegexMatch(th[t].name)

C7_Witness ==
    \E t \in Threads :
       /\ th[t].pc = "done" /\ IsPost(t) /\ th[t].resp.status = 200
       /\ Len(th[t].name) = 2 /\ th[t].name[2] = "+"
       /\ conf.datadirIsCwd /\ conf.name_min_size = 1

\* the saves to the file of t's name since t opened it are all t's own
EventsOf(t) == files[th[t].name].events

OpenedAt(t) == CHOOSE k \in 1..Len(EventsOf(t)) : EventsOf(t)[k] = <<th[t].rid, "open">>

NoLaterSave(t) ==
    \A j \in 1..Len(EventsOf(t)) : j > OpenedAt(t) => EventsOf(t)[j][1] = th[t].rid

Saved(t) ==
    /\ th[t].name \in DOMAIN files
    /\ \E k \in 1..Len(EventsOf(t)) : EventsOf(t)[k] = <<th[t].rid, "write">>

C9_StoreRoundTrip ==
    \A r \in answered :
       files[r.name].events = <<<<r.rid, "open">>, <<r.rid, "write">>>> =>
          read_file(r.name) = r.payload

C9_Witness ==
    \E r \in answered : \E t \in Threads :
       /\ files[r.name].events = <<<<r.rid, "open">>, <<r.rid, "write">>>>
       /\ r.payload = <<"HI", "CR">>
       /\ IsGet(t) /\ th[t].pc = "done" /\ GetPath(t) = r.name
       /\ th[t].resp = [status |-> 200, body |-> r.payload]

\* the server takes the next request
Accepting == \E t \in Threads : CanAccept(t)

\* C10: a handler that fails changes nothing but its own thread: the server
\* goes on serving, the store and the other handlers are as they were; and
\* once a handler has failed the server still takes the next request as
\* soon as no handler is in flight.
C10_FailureIsolation ==
    [][/\ \A t \in Threads :
            (th[t].pc # "failed" /\ th'[t].pc = "failed") =>
               /\ serving' = serving
               /\ files' = files
               /\ \A u \in Threads \ {t} : th'[u] = th[u]
       /\ failed' # 0 =>
            /\ serving'
            /\ (nreq' < MaxRequests /\ (\A t \in Threads : Free(t)'))
                  => Accepting']_vars

\* a request that came after the failed one has been answered 200, beside a
\* handler that failed
C10_Witness ==
    \E t, u \in Threads :
       /\ th[t].pc = "failed"
       /\ failed # 0
       /\ th[u].pc = "done" /\ th[u].resp.status = 200 /\ th[u].rid > failed

\* the name of the POST numbered rid, in flight or answered
NameOf(rid) ==
    {th[t].name : t \in {u \in Threads : th[u].rid = rid /\ IsPost(u)}}
        \cup {a.name : a \in {b \in answered : b.rid = rid}}

\* C11: a POST writes to no file but the one of the name it derived, so two
\* POSTs that derived different names never write to the same file.  (That
\* two POSTs which derived the same name before either saved are both
\* answered 200 with the same URL, one payload lost, is C11_Witness.)
C11_OwnFileOnly ==
    \A n \in DOMAIN files :
       \A k \in 1..Len(files[n].events) : NameOf(files[n].events[k][1]) = {n}

\* both probes found the name free (the probe looks into the store here, so
\* the second one came before the first save), both POSTs were answered 200
\* with the same URL, and the store holds the payload of one of them only
C11_Witness ==
    /\ conf.datadirIsCwd
    /\ \E a, b \in answered :
          /\ a.rid # b.rid /\ a.name = b.name /\ a.payload # b.payload
          /\ files[a.name].data = a.payload
          /\ \E t, u \in Threads :
                /\ th[t].rid = a.rid /\ th[u].rid = b.rid
                /\ th[t].resp = th[u].resp /\ th[t].resp.status = 200

\* the handler has the result of generate_name and has not saved yet
Generated(t) == th[t].pc = "save_file"

Prefix(s, l) == SubSeq(s, 1, l)

\* C12: the name generate_name returns is the shortest prefix, of
\* name_min_size characters or more, of the stripped digest that is no file
\* of the store directory (one client, so nothing is saved in between).
C12_ShortestFreshPrefix ==
    Single =>
       \A t \in Threads :
          (Generated(t) /\ th[t].name # None) =>
             LET s == Stripped(th[t].ts)
                 l == Len(th[t].name)
             IN  /\ l >= conf.name_min_size
                 /\ th[t].name = Prefix(s, l)
                 /\ th[t].name \notin DOMAIN files
                 /\ \A j \in conf.name_min_size..(l - 1) : Prefix(s, j) \in DOMAIN files

\* C15: generate_name yields no name only if every prefix from
\* name_min_size characters up to the whole stripped digest is taken.
C15_FullRangeTried ==
    Single =>
       \A t \in Threads :
          (Generated(t) /\ th[t].name = None) =>
             LET s == Stripped(th[t].ts)
             IN  \A j \in conf.name_min_size..Len(s) : Prefix(s, j) \in DOMAIN files

\* the files the request numbered rid has opened or written
SavesOf(rid) ==
    {n \in DOMAIN files :
        \E k \in 1..Len(files[n].events) : files[n].events[k][1] = rid}

\* C16: a POST with a non-empty payload for which generate_name yielded no
\* name saves nothing, under no name, and is not answered 200.
C16_NoNameNoPaste ==
    \A t \in Threads :
       (IsPost(t) /\ th[t].data # <<>> /\ th[t].name = None
          /\ th[t].pc \notin {"do_POST", "generate_name"}) =>
             /\ th[t].pc \in {"save_file", "failed"}
             /\ th[t].resp.status # 200
             /\ SavesOf(th[t].rid) = {}
             /\ None \notin DOMAIN files

C16_Witness ==
    \E t \in Threads :
       /\ IsPost(t) /\ th[t].data # <<>> /\ th[t].name = None
       /\ th[t].pc = "failed" /\ th[t].resp = NoResp
       /\ conf.writable /\ files # <<>>

\* the host part the URL is meant to have
HostPart ==
    IF <<conf.scheme, conf.port>> \in {<<"http", "80">>, <<"https", "443">>}
    THEN <<"hostname">>
    ELSE <<"hostname", ":", conf.port>>

\* C19: the URL of a 200 leaves the port out when (scheme, port) is (http, 80)
\* or (https, 443), and has hostname:port otherwise.
C19_DefaultPortOmitted ==
    \A t \in Threads :
       (IsPost(t) /\ th[t].pc = "done" /\ th[t].resp.status = 200) =>
          th[t].resp.body =
             <<conf.scheme, "://">> \o HostPart \o <<"/">> \o th[t].name \o CRLF

\* ------------------------------------------------------------ claims on read_data
HasCD(line) == Contains(LineStr(line), <<"CD">>)

\* the place of the first Content-Disposition line of the stream (0: none)
FirstCD(lines) ==
    IF \E j \in 1..Len(lines) : HasCD(lines[j])
    THEN CHOOSE j \in 1..Len(lines) :
            HasCD(lines[j]) /\ \A h \in 1..(j - 1) : ~HasCD(lines[h])
    ELSE 0

\* the text of the line before the first Content-Disposition line
MarkerOf(lines) ==
    IF FirstCD(lines) <= 1 THEN None ELSE LineStr(lines[FirstCD(lines) - 1])

\* a line that ends the scan under marker m
Stops(m, line) == m # None /\ m # <<>> /\ Contains(LineStr(line), m)

\* the place of the first line from `from` on that ends the scan (one past
\* the last line: none)
BoundaryAt(lines, from, m) ==
    IF \E j \in from..Len(lines) : Stops(m, lines[j])
    THEN CHOOSE j \in from..Len(lines) :
            Stops(m, lines[j]) /\ \A h \in from..(j - 1) : ~Stops(m, lines[h])
    ELSE Len(lines) + 1

\* ex.i - 1 lines have been through the loop
Passed == ex.i - 1

\* C13: once the Content-Disposition line and the skipped line are passed,
\* the accumulated payload is the concatenation of the raw bytes of every
\* following line passed so far, up to but not including the first line
\* that contains the recorded marker.
C13_ConsumingPhase ==
    LET k == FirstCD(ex.lines)
        b == BoundaryAt(ex.lines, k + 2, ex.st.ending)
        upto == IF Passed < b - 1 THEN Passed ELSE b - 1
    IN  (ex.pc # "idle" /\ k # 0 /\ Passed >= k + 1) =>
           ex.st.data = Flatten(SubSeq(ex.lines, k + 2, upto))

\* C14: before the first Content-Disposition line nothing is accumulated and
\* no marker is recorded; passing it records the text of the line before it,
\* for good; the line after it is skipped whatever it holds, and the line
\* after that one is consumed.
C14_BoundaryDiscovery ==
    LET lines == ex.lines
        k == FirstCD(lines)
    IN  ex.pc # "idle" =>
           /\ (k = 0 \/ Passed < k) =>
                 /\ ex.st.data = <<>>
                 /\ ex.st.ending = None
                 /\ ~ex.st.found_data
                 /\ ~ex.st.ignore_next
                 /\ ~ex.st.brk
           /\ (k # 0 /\ Passed >= k) => ex.st.ending = MarkerOf(lines)
           /\ (k # 0 /\ Passed = k) =>
                 ex.st.found_data /\ ex.st.ignore_next /\ ex.st.data = <<>> /\ ~ex.st.brk
           /\ (k # 0 /\ Passed = k + 1) =>
                 ~ex.st.ignore_next /\ ex.st.data = <<>> /\ ~ex.st.brk
           /\ (k # 0 /\ Passed = k + 2 /\ ~HasCD(lines[k + 2])) =>
                 IF Stops(MarkerOf(lines), lines[k + 2])
                 THEN ex.st.brk /\ ex.st.data = <<>>
                 ELSE ~ex.st.brk /\ ex.st.data = lines[k + 2]

\* a marker was recorded, the skipped line held it, the next line was consumed
C14_Witness ==
    /\ ex.pc = "returned"
    /\ Len(ex.lines) >= 4
    /\ FirstCD(ex.lines) = 2
    /\ ex.st.ending = <<"B">>
    /\ Stops(ex.st.ending, ex.lines[3])
    /\ ex.st.data = ex.lines[4]

EndsWithCRLF(d) == Len(d) >= 2 /\ d[Len(d) - 1] = "CR" /\ d[Len(d)] = "LF"

\* C17: what read_data returns is the accumulated payload less one trailing
\* CR LF when the payload ends with CR LF, and the accumulated payload
\* otherwise, whether the loop was left by break or at the end of the stream.
C17_TrailingStrip ==
    ex.pc = "returned" =>
       IF EndsWithCRLF(ex.st.data)
       THEN ex.out \o CRLF = ex.st.data
       ELSE ex.out = ex.st.data

\* left by break, with a payload that keeps a CR LF before the one removed
C17_Witness ==
    /\ ex.pc = "returned"
    /\ ex.st.brk
    /\ EndsWithCRLF(ex.st.data)
    /\ EndsWithCRLF(ex.out)
    /\ ex.out \o CRLF = ex.st.data

\* the lines of the stream picked by S, in order, end to end
Picked(lines, S) ==
    Flatten(SelectSeq([j \in 1..Len(lines) |-> IF j \in S THEN lines[j] ELSE <<>>],
                      LAMBDA l : l # <<>>))

\* what was returned is made of whole lines of the input, less the CR LF removed
FromInput ==
    \E S \in SUBSET (1..Len(ex.lines)) :
       \/ ex.out = Picked(ex.lines, S)
       \/ ex.out \o CRLF = Picked(ex.lines, S)

\* C18: every run of read_data comes to its return, and what it returns is
\* made of bytes of the input.
C18_Totality == <>(ex.pc = "returned" /\ FromInput)

\* the stream ended without a boundary line and a line that is not UTF-8 is
\* part of what was returned
C18_Witness ==
    /\ ex.pc = "returned"
    /\ ~ex.st.brk
    /\ ex.st.ending # None
    /\ \E j \in 1..Len(ex.out) : ex.out[j] = "HI"

\* C20: when no marker or an empty marker was recorded, the scan runs to the
\* end of the stream, and the payload is every line after the skipped one
\* that does not hold Content-Disposition:.
C20_NoMarkerNoStop ==
    LET lines == ex.lines
        k == FirstCD(lines)
    IN  (ex.pc = "returned" /\ k # 0 /\ MarkerOf(lines) \in {None, <<>>}) =>
           /\ ~ex.st.brk
           /\ Passed = Len(lines)
           /\ ex.st.data =
                 Flatten(SelectSeq(SubSeq(lines, k + 2, Len(lines)),
                                   LAMBDA l : ~HasCD(l)))
=============================================================================
